---- MODULE Spec2Model ----
(***************************************************************************)
(* veman - virtual environment manager (src/veman/main.py).                *)
(*                                                                         *)
(* The state is the tree under the root directory (context.env_dir): one   *)
(* entry per name, with the files the program looks at or writes.  Every   *)
(* invocation of veman is a process: Invoke starts it, and one action      *)
(* runs one whole operation of the program (activate_venv,                 *)
(* create_venv, delete_venv, the temp command, upgrade_venv,               *)
(* upgrade_venvs, the upgrade command) to its end: normal return,          *)
(* sys.exit(1) or an uncaught exception.  The collaborators                *)
(* (venv.EnvBuilder, the spawned bash, the file write, the prompt) are     *)
(* inputs the action draws with \E.                                        *)
(***************************************************************************)
EXTENDS Integers, Sequences, FiniteSets, TLC

VARIABLES fs, pc, last

vars == <<fs, pc, last>>

(***************************************************************************)
(* Names.  A name is the sequence of its character codes, so that          *)
(* list.sort() (case-sensitive, by code point) and the f-string            *)
(* f'veman-temp{str(num)}' are computed and not assumed.                   *)
(***************************************************************************)

\* range(0, 5000) of get_temp_venv_name, scaled down
TempRange == 2

\* "W": a user-chosen name; 'W' (87) sorts before 'v' (118)
UserNames == { <<87>> }

\* 'veman-temp'
TempPrefix == <<118, 101, 109, 97, 110, 45, 116, 101, 109, 112>>

\* str(num) for num >= 0: the decimal digits, most significant first
RECURSIVE Str(_)
Str(num) ==
    IF num < 10 THEN << 48 + num >>
    ELSE Append(Str(num \div 10), 48 + (num % 10))

\* f'veman-temp{str(num)}'
TempName(num) == TempPrefix \o Str(num)

TempNames == { TempName(k) : k \in 0 .. (TempRange - 1) }

\* the entries os.listdir(context.env_dir) can return
Names == UserNames \cup TempNames

\* the empty venv_name ('' is falsy in delete_venv)
NoName == << >>

(***************************************************************************)
(* The directory of one environment.                                      *)
(*   dir       the directory exists                                       *)
(*   cfg       pyvenv.cfg is a file                                       *)
(*   bin       bin/ is a directory                                        *)
(*   python    bin/python:  "none", "file" or "symlink"                   *)
(*   python3   bin/python3: "none", "file" or "symlink"                   *)
(*   activate  bin/activate is a file                                     *)
(*   script    bin/veman_activate: "none", or the script_version of the   *)
(*             file                                                       *)
(*   hist      .veman_history is a file                                   *)
(***************************************************************************)
AbsentDir ==
    [dir |-> FALSE, cfg |-> FALSE, bin |-> FALSE, python |-> "none",
     python3 |-> "none", activate |-> FALSE, script |-> "none", hist |-> FALSE]

\* what venv.EnvBuilder leaves behind, without veman's script
ForeignDir ==
    [dir |-> TRUE, cfg |-> TRUE, bin |-> TRUE, python |-> "symlink",
     python3 |-> "symlink", activate |-> TRUE, script |-> "none", hist |-> FALSE]

\* an environment created by veman and used at least once
ManagedDir == [ForeignDir EXCEPT !.script = "0.2", !.hist = TRUE]

InitDirs == { AbsentDir, ForeignDir, ManagedDir }

(***************************************************************************)
(* Directory Prober                                                        *)
(***************************************************************************)

\* a path under the root: env_dir + name, with or without a trailing '/'
PathOf(name, slash) == [name |-> name, slash |-> slash]

\* "if directory[-1] != '/': directory = directory + '/'"
WithSlash(directory) ==
    IF ~directory.slash THEN [directory EXCEPT !.slash = TRUE] ELSE directory

\* Path(...).is_file() follows symlinks
IsFile(kind) == kind \in {"file", "symlink"}

\* Path(...).is_symlink()
IsSymlink(kind) == kind = "symlink"

\* is_venv without the test of pyvenv.cfg
is_venv_no_cfg(tree, directory) ==
    LET d == tree[WithSlash(directory).name]
    IN  /\ d.dir
        /\ d.bin
        /\ IsFile(d.python)
        /\ d.activate

is_venv(tree, directory) ==
    LET d == tree[WithSlash(directory).name]
    IN  /\ d.dir
        /\ d.cfg
        /\ d.bin
        /\ IsFile(d.python)
        /\ d.activate

is_managed_venv(tree, directory) ==
    LET dn == WithSlash(directory)
    IN  /\ is_venv(tree, dn)
        /\ tree[dn.name].script # "none"

(***************************************************************************)
(* Environment Registry                                                    *)
(***************************************************************************)

\* Python's str comparison a < b, by code point
RECURSIVE StrLess(_, _)
StrLess(a, b) ==
    IF b = << >> THEN FALSE
    ELSE IF a = << >> THEN TRUE
    ELSE IF Head(a) # Head(b) THEN Head(a) < Head(b)
    ELSE StrLess(Tail(a), Tail(b))

\* list.sort() of a list without duplicates
RECURSIVE SortNames(_)
SortNames(S) ==
    IF S = {} THEN << >>
    ELSE LET m == CHOOSE x \in S : \A y \in S \ {x} : StrLess(x, y)
         IN  << m >> \o SortNames(S \ {m})

\* os.listdir(context.env_dir)
ListDir(tree) == { n \in Names : tree[n].dir }

\* get_environments without the is_managed_venv filter
get_environments_unfiltered(tree) == SortNames(ListDir(tree))

get_environments(tree) ==
    SortNames({ entry \in ListDir(tree) : is_managed_venv(tree, PathOf(entry, FALSE)) })

InList(name, list) == \E i \in DOMAIN list : list[i] = name

\* the loop of get_temp_venv_name: the first num whose name is not listed,
\* and the last num of the range when every name is listed
RECURSIVE TempLoop(_, _)
TempLoop(tree, num) ==
    IF ~InList(TempName(num), get_environments(tree)) THEN TempName(num)
    ELSE IF num + 1 < TempRange THEN TempLoop(tree, num + 1)
    ELSE TempName(num)

\* get_temp_venv_name without the test of the list
get_temp_venv_name_last(tree) == TempName(TempRange - 1)

get_temp_venv_name(tree) == TempLoop(tree, 0)

(***************************************************************************)
(* A running process: the tree it works on, how far it got ("run", or how  *)
(* it ended: "exit1" for sys.exit(1), the exception's name when one is     *)
(* propagating), the value the last method returned, and what it printed   *)
(* and which collaborators it called, in order.                            *)
(***************************************************************************)
Start(tree) == [fs |-> tree, st |-> "run", ret |-> "None", ev |-> << >>]

Event(ps, tag, name) == [ps EXCEPT !.ev = Append(@, <<tag, name>>)]

\* print(...) followed by sys.exit(1)
SysExit1(ps, tag, name) == [Event(ps, tag, name) EXCEPT !.st = "exit1"]

Raise(ps, exc) == [ps EXCEPT !.st = exc]

Return(ps, value) == [ps EXCEPT !.ret = value]

\* context.virtual_env: None, or the path in VIRTUAL_ENV
VirtualEnvs == {"None", "/active/venv"}

\* "if context.virtual_env:"
Truthy(virtual_env) == virtual_env # "None"

(***************************************************************************)
(* Collaborators                                                           *)
(***************************************************************************)

\* how one run of venv.EnvBuilder.create can end: built, or an exception
\* before anything is written
BuilderOutcomes == {"ok", "fail"}

\* the files EnvBuilder.create(env_dir) writes; in upgrade mode
\* (upgrade=True) the scripts, bin/activate among them, are not installed
BuilderFiles(d, upgradeMode, outcome) ==
    IF outcome = "fail" THEN d
    ELSE [d EXCEPT !.dir = TRUE,
                   !.cfg = TRUE,
                   !.bin = TRUE,
                   !.python = IF @ = "none" THEN "symlink" ELSE @,
                   !.python3 = IF @ = "none" THEN "symlink" ELSE @,
                   !.activate = IF upgradeMode THEN @ ELSE TRUE]

\* self.environment.create(self.base_path + self.name)
EnvBuilderCreate(ps, name, upgradeMode, outcome) ==
    LET built == Event([ps EXCEPT !.fs[name] = BuilderFiles(@, upgradeMode, outcome)],
                       "builder", name)
    IN  IF outcome = "ok" THEN built ELSE Raise(built, "BuilderError")

\* how the spawned bash session can end, and whether it wrote $HISTFILE
ShellOutcomes == [code : {0, 1}, history : BOOLEAN]

\* subprocess.run(['bash', '--rcfile', self.veman_activate], check=True)
SubprocessRun(ps, name, sh) ==
    LET ran == Event([ps EXCEPT !.fs[name].hist = @ \/ sh.history], "spawn", name)
    IN  IF sh.code # 0 THEN Raise(ran, "CalledProcessError") ELSE ran

(***************************************************************************)
(* class Veman                                                             *)
(***************************************************************************)

\* the property Veman.exists
exists(tree, name) == InList(name, get_environments(tree))

\* open(self.veman_activate, 'w') raises an IOError when bin/ is missing or
\* when the system refuses (ioFault: permissions, quota, read-only)
OpenFails(d, ioFault) == ioFault \/ ~d.bin

\* script_version of generate_veman_activate_script
ScriptVersion == "0.2"

install_scripts(ps, name, ioFault) ==
    IF OpenFails(ps.fs[name], ioFault)
    THEN Event(ps, "Error writing veman_activate script to venv", name)
    ELSE Event([ps EXCEPT !.fs[name].script = ScriptVersion], "install_scripts", name)

on_deactivate(ps, name) == Event(ps, "on_deactivate", name)

post_create(ps, name) == Event(ps, "post_create", name)

Veman_activate(ps, name, sh) ==
    IF exists(ps.fs, name)
    THEN LET ran == SubprocessRun(ps, name, sh)
         IN  IF ran.st = "run" THEN on_deactivate(ran, name) ELSE ran
    ELSE Raise(ps, "ValueError")

\* Veman.delete gone wrong: only veman's own script is removed
Veman_delete_script_only(ps, name) ==
    IF ~exists(ps.fs, name)
    THEN SysExit1(ps, "Environment not found", name)
    ELSE Event([ps EXCEPT !.fs[name].script = "none"], "rmtree", name)

\* Veman.delete gone wrong: the directory is removed without asking the
\* registry whether the environment is managed
Veman_delete_unchecked(ps, name) ==
    IF ps.fs[name].dir
    THEN Event([ps EXCEPT !.fs[name] = AbsentDir], "rmtree", name)
    ELSE ps

Veman_delete(ps, name) ==
    IF ~exists(ps.fs, name)
    THEN SysExit1(ps, "Environment not found", name)
    ELSE IF ps.fs[name].dir
         THEN Event([ps EXCEPT !.fs[name] = AbsentDir], "rmtree", name)
         ELSE ps

\* Veman.create going on whatever input() returned
Veman_create_answer_unread(ps, name, overwrite, answer, outcome, ioFault) ==
    LET isThere == exists(ps.fs, name)
        p1 == IF isThere THEN Event(ps, "already exists", name) ELSE ps
        p2 == IF isThere /\ ~overwrite THEN Event(p1, "prompt", name) ELSE p1
        go == TRUE
        p3 == IF isThere THEN Veman_delete(p2, name) ELSE p2
        p4 == IF p3.st = "run" THEN EnvBuilderCreate(p3, name, FALSE, outcome) ELSE p3
        p5 == IF p4.st = "run" THEN post_create(install_scripts(p4, name, ioFault), name)
              ELSE p4
    IN  IF isThere /\ ~go THEN Return(p2, "False")
        ELSE IF p5.st = "run" THEN Return(p5, "True")
        ELSE p5

\* answer: what input("Do you want to overwrite existing venv? [y/N] ")
\* returns, upper-cased
Veman_create(ps, name, overwrite, answer, outcome, ioFault) ==
    LET isThere == exists(ps.fs, name)
        p1 == IF isThere THEN Event(ps, "already exists", name) ELSE ps
        p2 == IF isThere /\ ~overwrite THEN Event(p1, "prompt", name) ELSE p1
        go == overwrite \/ answer = "Y"
        p3 == IF isThere THEN Veman_delete(p2, name) ELSE p2
        p4 == IF p3.st = "run" THEN EnvBuilderCreate(p3, name, FALSE, outcome) ELSE p3
        p5 == IF p4.st = "run" THEN post_create(install_scripts(p4, name, ioFault), name)
              ELSE p4
    IN  IF isThere /\ ~go THEN Return(p2, "False")
        ELSE IF p5.st = "run" THEN Return(p5, "True")
        ELSE p5

\* the unlink of bin/python and bin/python3 when they are symlinks
UnlinkSymlinks(ps, name) ==
    [ps EXCEPT !.fs[name].python = IF IsSymlink(@) THEN "none" ELSE @,
               !.fs[name].python3 = IF IsSymlink(@) THEN "none" ELSE @]

Veman_upgrade(ps, name, upgrade_deps, upgrade_python, outcome) ==
    IF ~exists(ps.fs, name)
    THEN SysExit1(ps, "Environment not found", name)
    ELSE IF ~upgrade_deps /\ ~upgrade_python
    THEN SysExit1(ps, "Neither core dependencies or python version is set to be upgraded",
                  name)
    ELSE LET p1 == IF upgrade_python THEN UnlinkSymlinks(ps, name) ELSE ps
         IN  EnvBuilderCreate(p1, name, upgrade_python, outcome)

(***************************************************************************)
(* Module-level operations                                                 *)
(***************************************************************************)

\* activate_venv without its "except ValueError"
activate_venv_uncaught(ps, name, virtual_env, sh) ==
    IF Truthy(virtual_env)
    THEN SysExit1(ps, "Deactivate before activating another environment", name)
    ELSE Veman_activate(ps, name, sh)

activate_venv(ps, name, virtual_env, sh) ==
    IF Truthy(virtual_env)
    THEN SysExit1(ps, "Deactivate before activating another environment", name)
    ELSE LET r == Veman_activate(ps, name, sh)
         IN  IF r.st = "ValueError"
             THEN Event([r EXCEPT !.st = "run"], "is not a managed venv", name)
             ELSE r

\* create_venv gone wrong: the active-environment check is missing
create_venv_unchecked(ps, name, virtual_env, overwrite, activate, answer, outcome, ioFault, sh) ==
    LET c == Veman_create(ps, name, overwrite, answer, outcome, ioFault)
    IN  IF c.st = "run" /\ c.ret = "True" /\ activate
        THEN activate_venv(c, name, virtual_env, sh)
        ELSE c

create_venv(ps, name, virtual_env, overwrite, activate, answer, outcome, ioFault, sh) ==
    IF Truthy(virtual_env)
    THEN SysExit1(ps, "Deactivate before creating a new environment", name)
    ELSE LET c == Veman_create(ps, name, overwrite, answer, outcome, ioFault)
         IN  IF c.st = "run" /\ c.ret = "True" /\ activate
             THEN activate_venv(c, name, virtual_env, sh)
             ELSE c

delete_venv(ps, name) ==
    IF name # NoName
    THEN Veman_delete(ps, name)
    ELSE Event(ps, "No venv_name supplied", name)

\* the temp command of parse_command
parse_command_temp(ps, virtual_env, outcome, ioFault, sh) ==
    LET venv_name == get_temp_venv_name(ps.fs)
        c == create_venv(ps, venv_name, virtual_env, TRUE, TRUE, "N", outcome, ioFault, sh)
    IN  IF c.st = "run" THEN Veman_delete(c, venv_name) ELSE c

upgrade_venv(ps, name, upgrade_deps, upgrade_python, upgrade_scripts, outcome, ioFault) ==
    LET p1 == IF upgrade_deps \/ upgrade_python
              THEN Veman_upgrade(ps, name, upgrade_deps, upgrade_python, outcome)
              ELSE ps
    IN  IF p1.st = "run" /\ upgrade_scripts
        THEN install_scripts(Event(p1, "Upgrading veman scripts", name), name, ioFault)
        ELSE p1

\* what goes wrong during a bulk upgrade: nothing, or one fault at one
\* environment (the builder fails, or the script cannot be written)
FaultKinds == {"fail", "io"}

NoFault == [name |-> NoName, kind |-> "none"]

Faults == {NoFault} \cup [name : Names, kind : FaultKinds]

OutcomeAt(fault, name) ==
    IF fault.name = name /\ fault.kind \in BuilderOutcomes THEN fault.kind ELSE "ok"

IoFaultAt(fault, name) == fault.name = name /\ fault.kind = "io"

\* the for loop of upgrade_venvs, from its i-th environment on
RECURSIVE UpgradeLoop(_, _, _, _, _, _, _)
UpgradeLoop(ps, environments, i, upgrade_deps, upgrade_python, upgrade_scripts, fault) ==
    IF i > Len(environments) \/ ps.st # "run" THEN ps
    ELSE LET managed_env == environments[i]
             done == upgrade_venv(Event(ps, "Upgrading", managed_env), managed_env,
                                  upgrade_deps, upgrade_python, upgrade_scripts,
                                  OutcomeAt(fault, managed_env),
                                  IoFaultAt(fault, managed_env))
         IN  UpgradeLoop(done, environments, i + 1,
                         upgrade_deps, upgrade_python, upgrade_scripts, fault)

upgrade_venvs(ps, upgrade_deps, upgrade_python, upgrade_scripts, fault) ==
    UpgradeLoop(Event(ps, "Upgrading all environments", NoName),
                get_environments(ps.fs), 1,
                upgrade_deps, upgrade_python, upgrade_scripts, fault)

\* the upgrade command of parse_command: "if no component is specified, all
\* components will be upgraded"
parse_command_upgrade(ps, name, upgrade_all_venvs, opt_deps, opt_python, opt_scripts, fault) ==
    LET given == opt_deps \/ opt_python \/ opt_scripts
        upgrade_deps == IF ~given THEN TRUE ELSE opt_deps
        upgrade_python == IF ~given THEN TRUE ELSE opt_python
        upgrade_scripts == IF ~given THEN TRUE ELSE opt_scripts
    IN  IF upgrade_all_venvs
        THEN upgrade_venvs(ps, upgrade_deps, upgrade_python, upgrade_scripts, fault)
        ELSE upgrade_venv(ps, name, upgrade_deps, upgrade_python, upgrade_scripts,
                          OutcomeAt(fault, name), IoFaultAt(fault, name))

(***************************************************************************)
(* The state machine                                                       *)
(***************************************************************************)

\* Absent, Managed, Foreign (an environment without veman's script) or
\* Other (a directory that is no environment)
StateOf(tree, name) ==
    IF name \notin Names THEN "None"
    ELSE IF ~tree[name].dir THEN "Absent"
    ELSE IF is_managed_venv(tree, PathOf(name, FALSE)) THEN "Managed"
    ELSE IF is_venv(tree, PathOf(name, FALSE)) THEN "Foreign"
    ELSE "Other"

NoShell == [code |-> 0, history |-> FALSE]

NoRun ==
    [op |-> "none", name |-> NoName, was |-> "None", listed |-> << >>, in |-> [none |-> TRUE],
     status |-> "ok", ret |-> "None", ev |-> << >>, changed |-> FALSE]

\* the process has ended: the tree it leaves, and the record of the run
\*   op       the operation
\*   name     the environment it was given
\*   was      that environment's state when it started
\*   listed   get_environments when a bulk operation started
\*   in       the arguments it was given
\*   status   "ok" (returned, exit status 0), "exit1" (sys.exit(1)) or the
\*            uncaught exception (traceback, exit status 1)
\*   ret      what Veman.create returned
\*   ev       what was printed and called, in order
\*   changed  whether the tree under the root differs from before
Finish(op, name, in, ps) ==
    /\ pc' = "done"
    /\ fs' = ps.fs
    /\ last' = [op |-> op, name |-> name, was |-> StateOf(fs, name),
                listed |-> IF name = NoName THEN get_environments(fs) ELSE << >>,
                in |-> in,
                status |-> IF ps.st = "run" THEN "ok" ELSE ps.st,
                ret |-> ps.ret, ev |-> ps.ev, changed |-> ps.fs # fs]

Init ==
    /\ fs \in [Names -> InitDirs]
    /\ pc = "ready"
    /\ last = NoRun

\* the previous process is gone and veman is invoked again
Invoke ==
    /\ pc = "done"
    /\ pc' = "ready"
    /\ last' = NoRun
    /\ UNCHANGED fs

\* the inputs of activate_venv: the context's virtual_env, and how the shell
\* ends, which is not spawned when an environment is active
ActivateInputs ==
    { i \in [virtual_env : VirtualEnvs, sh : ShellOutcomes] :
        Truthy(i.virtual_env) => i.sh = NoShell }

ActivateVenv ==
    /\ pc = "ready"
    /\ \E name \in Names, i \in ActivateInputs :
           Finish("activate", name, [virtual_env |-> i.virtual_env],
                  activate_venv(Start(fs), name, i.virtual_env, i.sh))

\* the inputs of create_venv, without the combinations that differ only in an
\* input the code does not read: input() is not called when overwrite is set,
\* nothing is written after the builder failed, and no shell is spawned
\* unless activate is set; with an environment active the builder, the
\* prompt and the shell are not reached
CreateInputs ==
    { i \in [virtual_env : VirtualEnvs, overwrite : BOOLEAN, activate : BOOLEAN,
             answer : {"Y", "N"}, outcome : BuilderOutcomes, ioFault : BOOLEAN,
             sh : ShellOutcomes] :
        /\ Truthy(i.virtual_env) => (i.answer = "N" /\ i.outcome = "ok")
        /\ i.overwrite => i.answer = "N"
        /\ i.outcome # "ok" => ~i.ioFault
        /\ (i.outcome # "ok" \/ ~i.activate) => i.sh = NoShell }

CreateVenv ==
    /\ pc = "ready"
    /\ \E name \in Names, i \in CreateInputs :
           Finish("create", name,
                  [virtual_env |-> i.virtual_env, overwrite |-> i.overwrite,
                   activate |-> i.activate, answer |-> i.answer],
                  create_venv(Start(fs), name, i.virtual_env, i.overwrite, i.activate,
                              i.answer, i.outcome, i.ioFault, i.sh))

DeleteVenv ==
    /\ pc = "ready"
    /\ \E name \in Names \cup {NoName} :
           Finish("delete", name, [none |-> TRUE], delete_venv(Start(fs), name))

TempInputs ==
    { i \in [virtual_env : VirtualEnvs, outcome : BuilderOutcomes, ioFault : BOOLEAN,
             sh : ShellOutcomes] :
        (Truthy(i.virtual_env) \/ i.outcome # "ok") => (~i.ioFault /\ i.sh = NoShell) }

Temp ==
    /\ pc = "ready"
    /\ \E i \in TempInputs :
           Finish("temp", get_temp_venv_name(fs),
                  [virtual_env |-> i.virtual_env, code |-> i.sh.code],
                  parse_command_temp(Start(fs), i.virtual_env, i.outcome, i.ioFault, i.sh))

\* the inputs of upgrade_venv: the builder runs only for deps or python, the
\* script is written only for scripts, after the builder succeeded
UpgradeInputs ==
    { i \in [deps : BOOLEAN, python : BOOLEAN, scripts : BOOLEAN,
             outcome : BuilderOutcomes, ioFault : BOOLEAN] :
        /\ ~(i.deps \/ i.python) => i.outcome = "ok"
        /\ (~i.scripts \/ i.outcome # "ok") => ~i.ioFault }

UpgradeVenv ==
    /\ pc = "ready"
    /\ \E name \in Names, i \in UpgradeInputs :
           Finish("upgrade", name,
                  [deps |-> i.deps, python |-> i.python, scripts |-> i.scripts],
                  upgrade_venv(Start(fs), name, i.deps, i.python, i.scripts,
                               i.outcome, i.ioFault))

BulkInputs ==
    { i \in [deps : BOOLEAN, python : BOOLEAN, scripts : BOOLEAN, fault : Faults] :
        /\ ~(i.deps \/ i.python) => i.fault.kind \notin BuilderOutcomes
        /\ ~i.scripts => i.fault.kind # "io" }

UpgradeVenvs ==
    /\ pc = "ready"
    /\ \E i \in BulkInputs :
           Finish("upgrade_all", NoName,
                  [deps |-> i.deps, python |-> i.python, scripts |-> i.scripts],
                  upgrade_venvs(Start(fs), i.deps, i.python, i.scripts, i.fault))

\* the inputs of the upgrade command: --all or a name, the three options, and
\* the fault, which without --all can only be at the named environment
CommandInputs ==
    { i \in [name : Names \cup {NoName}, deps : BOOLEAN, python : BOOLEAN,
             scripts : BOOLEAN, fault : Faults] :
        LET given == i.deps \/ i.python \/ i.scripts
        IN  /\ i.name # NoName => i.fault.name \in {NoName, i.name}
            /\ (given /\ ~(i.deps \/ i.python)) => i.fault.kind \notin BuilderOutcomes
            /\ (given /\ ~i.scripts) => i.fault.kind # "io" }

\* veman upgrade [name] [--all] [--deps] [--python] [--scripts]
UpgradeCommand ==
    /\ pc = "ready"
    /\ \E i \in CommandInputs :
           Finish("upgrade_command", i.name,
                  [deps |-> i.deps, python |-> i.python, scripts |-> i.scripts],
                  parse_command_upgrade(Start(fs), i.name, i.name = NoName,
                                        i.deps, i.python, i.scripts, i.fault))

\* the list command: get_environments, and one print per name
parse_command_list(ps) ==
    LET environments == get_environments(ps.fs)
    IN  [ps EXCEPT !.ev = @ \o [i \in 1 .. Len(environments) |->
                                   <<"print", environments[i]>>]]

ListVenvs ==
    /\ pc = "ready"
    /\ Finish("list", NoName, [none |-> TRUE], parse_command_list(Start(fs)))

Next ==
    \/ Invoke
    \/ ActivateVenv
    \/ CreateVenv
    \/ DeleteVenv
    \/ Temp
    \/ UpgradeVenv
    \/ UpgradeVenvs
    \/ UpgradeCommand
    \/ ListVenvs

Spec == Init /\ [][Next]_vars

(***************************************************************************)
(* The Directory Prober on its own: is_venv and is_managed_venv applied to *)
(* every directory a file system can hold, the partial ones included.      *)
(***************************************************************************)

\* the directories a file system can hold: nothing under a directory that
\* does not exist, no file in bin/ without bin/
ProbeDirs ==
    { d \in [dir : BOOLEAN, cfg : BOOLEAN, bin : BOOLEAN,
             python : {"none", "file", "symlink"}, python3 : {"none"},
             activate : BOOLEAN, script : {"none", ScriptVersion},
             hist : {FALSE}] :
        /\ ~d.dir => (~d.cfg /\ ~d.bin)
        /\ ~d.bin => (d.python = "none" /\ ~d.activate /\ d.script = "none") }

ProbeInit ==
    /\ \E name \in Names, d \in ProbeDirs :
           fs = [n \in Names |-> IF n = name THEN d ELSE AbsentDir]
    /\ pc = "ready"
    /\ last = NoRun

\* both predicates on env_dir + name, as the callers pass it (without the
\* trailing '/') and with it
Probe ==
    /\ pc = "ready"
    /\ \E name \in Names, slash \in BOOLEAN :
           /\ pc' = "done"
           /\ last' = [NoRun EXCEPT !.op = "probe", !.name = name,
                                    !.in = [slash |-> slash],
                                    !.ret = [venv |-> is_venv(fs, PathOf(name, slash)),
                                             managed |-> is_managed_venv(fs, PathOf(name, slash))]]
           /\ UNCHANGED fs

NextProbe ==
    \/ Invoke
    \/ Probe

SpecProbe == ProbeInit /\ [][NextProbe]_vars

(***************************************************************************)
(* The History Store: the history command on its own.  What open() and     *)
(* readlines() give for each .veman_history is an input of the read.       *)
(***************************************************************************)

\* the longest history file
MaxLines == 2

\* 'ls' and 'cd /tmp'
HistoryCommands == << <<108, 115>>, <<99, 100, 32, 47, 116, 109, 112>> >>

\* the history files: the first k commands of a session that alternates
\* between the two
FileContents ==
    { [i \in 1 .. k |-> HistoryCommands[((i - 1) % Len(HistoryCommands)) + 1]] :
        k \in 0 .. MaxLines }

\* file.readlines(): every line with its '\n'
readlines(text) == [i \in DOMAIN text |-> Append(text[i], 10)]

\* line.replace('\n', '')
RemoveNewlines(line) == SelectSeq(line, LAMBDA c : c # 10)

\* f"[{self.name}:{index}] {line}"
VerboseLine(name, index, line) ==
    <<91>> \o name \o <<58>> \o Str(index) \o <<93, 32>> \o line

\* one open() of an existing file: IOError (other than FileNotFoundError),
\* or the text of the file
Reads == { r \in [err : BOOLEAN, text : FileContents] : r.err => r.text = << >> }

NoRead == [err |-> FALSE, text |-> << >>]

\* Veman.shell_history with enumerate(lines) counting from 0
shell_history_from_zero(ps, name, verbose, read) ==
    IF ~ps.fs[name].hist THEN Return(ps, << >>)
    ELSE IF read.err
    THEN Raise(Event(ps, "Error reading", name), "UnboundLocalError")
    ELSE LET lines == readlines(read.text)
         IN  Return(ps, [index \in DOMAIN lines |->
                            IF verbose
                            THEN VerboseLine(name, index - 1, RemoveNewlines(lines[index]))
                            ELSE RemoveNewlines(lines[index])])

\* Veman.shell_history; after "except IOError" the name lines is unbound
\* and enumerate(lines, start=1) raises UnboundLocalError
shell_history(ps, name, verbose, read) ==
    IF ~ps.fs[name].hist THEN Return(ps, << >>)
    ELSE IF read.err
    THEN Raise(Event(ps, "Error reading", name), "UnboundLocalError")
    ELSE LET lines == readlines(read.text)
         IN  Return(ps, [index \in DOMAIN lines |->
                            IF verbose
                            THEN VerboseLine(name, index, RemoveNewlines(lines[index]))
                            ELSE RemoveNewlines(lines[index])])

\* the loop of venv_shell_history over get_environments
RECURSIVE HistoryLoop(_, _, _, _, _, _)
HistoryLoop(ps, environments, i, verbose, files, history) ==
    IF i > Len(environments) THEN Return(ps, history)
    ELSE LET r == shell_history(ps, environments[i], verbose, files[environments[i]])
         IN  IF r.st # "run" THEN r
             ELSE HistoryLoop(r, environments, i + 1, verbose, files, history \o r.ret)

venv_shell_history(ps, venv_name, verbose, files) ==
    IF venv_name # NoName
    THEN shell_history(ps, venv_name, verbose, files[venv_name])
    ELSE HistoryLoop(ps, get_environments(ps.fs), 1, verbose, files, << >>)

\* one print per entry of the history; the function itself returns None
print_venv_shell_history(ps, venv_name, verbose, files) ==
    LET h == venv_shell_history(ps, venv_name, verbose, files)
    IN  IF h.st # "run" THEN [h EXCEPT !.ret = "None"]
        ELSE Return([h EXCEPT !.ev = @ \o [i \in DOMAIN h.ret |-> <<"print", h.ret[i]>>]],
                    "None")

\* a managed environment that was never activated has no history file
FreshDir == [ManagedDir EXCEPT !.hist = FALSE]

HistoryInit ==
    /\ fs \in [Names -> InitDirs \cup {FreshDir}]
    /\ pc = "ready"
    /\ last = NoRun

\* the inputs of the history command: the name (none: every environment),
\* --verbose, and one read per file that is opened
HistoryInputs ==
    { i \in [name : Names \cup {NoName}, verbose : BOOLEAN, files : [Names -> Reads]] :
        \A n \in Names :
            \/ fs[n].hist /\ (i.name = n \/ (i.name = NoName /\ exists(fs, n)))
            \/ i.files[n] = NoRead }

History ==
    /\ pc = "ready"
    /\ \E i \in HistoryInputs :
           Finish("history", i.name, [verbose |-> i.verbose, files |-> i.files],
                  print_venv_shell_history(Start(fs), i.name, i.verbose, i.files))

NextHistory ==
    \/ Invoke
    \/ History

SpecHistory == HistoryInit /\ [][NextHistory]_vars

(***************************************************************************)
(* get_venv_name_from_user: the menu and the prompt loop, one input() per  *)
(* step.                                                                   *)
(***************************************************************************)

\* how many times input() is called in one run
MaxPrompts == 3

\* what the user types: 'q', 'x', the empty line, '-1', and the numbers
\* from '0' to one more than there can be environments
Choices ==
    { <<113>>, <<120>>, << >>, <<45, 49>> } \cup { Str(k) : k \in 0 .. (Cardinality(Names) + 1) }

IsDigits(s) == s # << >> /\ \A i \in DOMAIN s : s[i] \in 48 .. 57

RECURSIVE DigitsValue(_)
DigitsValue(s) ==
    IF s = << >> THEN 0
    ELSE 10 * DigitsValue(SubSeq(s, 1, Len(s) - 1)) + (s[Len(s)] - 48)

\* whether int(s) returns for the strings of Choices: an optional sign and
\* decimal digits; otherwise it raises ValueError
IsInt(s) ==
    IF s # << >> /\ Head(s) \in {43, 45} THEN IsDigits(Tail(s)) ELSE IsDigits(s)

\* int(s) when it returns
IntOf(s) ==
    IF Head(s) = 45 THEN 0 - DigitsValue(Tail(s))
    ELSE IF Head(s) = 43 THEN DigitsValue(Tail(s))
    ELSE DigitsValue(s)

\* one turn of the loop after choice = input(...): sys.exit(0) on 'q', then
\* the while condition "not 1 <= int(choice) <= len(environments)", and
\* environments[int(choice)-1] when the loop is left
prompt_step(choice, environments) ==
    IF choice = <<113>> THEN [pc |-> "done", status |-> "exit0", ret |-> NoName]
    ELSE IF ~IsInt(choice) THEN [pc |-> "done", status |-> "ValueError", ret |-> NoName]
    ELSE IF 1 <= IntOf(choice) /\ IntOf(choice) <= Len(environments)
    THEN [pc |-> "done", status |-> "ok", ret |-> environments[IntOf(choice)]]
    ELSE [pc |-> "prompt", status |-> "ok", ret |-> NoName]

\* the menu is printed, choice is '-1' and the loop is entered
ResolveInit ==
    /\ fs \in [Names -> InitDirs]
    /\ pc = "prompt"
    /\ last = [op |-> "resolve", name |-> NoName, was |-> "None",
               listed |-> get_environments(fs), in |-> [choice |-> <<45, 49>>],
               status |-> "ok", ret |-> NoName,
               ev |-> [i \in 1 .. Len(get_environments(fs)) |->
                          <<"print", get_environments(fs)[i]>>],
               changed |-> FALSE]

\* the prompts of the run so far
Prompts == SelectSeq(last.ev, LAMBDA e : e[1] = "prompt")

Input ==
    /\ pc = "prompt"
    /\ Len(Prompts) < MaxPrompts
    /\ \E choice \in Choices :
           LET r == prompt_step(choice, last.listed)
           IN  /\ pc' = r.pc
               /\ last' = [last EXCEPT !.in.choice = choice,
                                       !.ev = Append(@, <<"prompt", choice>>),
                                       !.status = r.status,
                                       !.ret = r.ret]
    /\ UNCHANGED fs

NextResolve == Input

SpecResolve == ResolveInit /\ [][NextResolve]_vars

(***************************************************************************)
(* The Script Generator and the version reader: the lines of               *)
(* bin/veman_activate as install_scripts writes them, and what             *)
(* read_veman_activate_script_version reads back.  Text is kept as         *)
(* character codes, a file as one sequence of them.                        *)
(***************************************************************************)

\* sys.platform, for the platforms check_context lets through
Platforms == {"darwin", "linux", "freebsd14"}

\* context.os.startswith('freebsd')
StartsWithFreebsd(os) == os \in {"freebsd14"}

\* str(Path.home()): '/h'
HomeDir == <<47, 104>>

\* context.env_dir, DEFAULT_ENV_DIR: home + '/.veman/env/'
EnvDir == HomeDir \o <<47, 46, 118, 101, 109, 97, 110, 47, 101, 110, 118, 47>>

\* script_version = '0.2'
ScriptVersionText == <<48, 46, 50>>

\* self.veman_history
HistoryPath(name) == EnvDir \o name \o <<47, 46, 118, 101, 109, 97, 110, 95, 104, 105, 115, 116, 111, 114, 121>>

\* the generator appending the last export on every platform
generate_script_export_always(name, os) ==
    LET etc_profile == <<47, 101, 116, 99, 47, 112, 114, 111, 102, 105, 108, 101>>
        home_rc == IF os = "darwin" THEN HomeDir \o <<47, 46, 98, 97, 115, 104, 95, 112, 114, 111, 102, 105, 108, 101>>
                   ELSE HomeDir \o <<47, 46, 98, 97, 115, 104, 114, 99>>
        venv_activate == EnvDir \o name \o <<47, 98, 105, 110, 47, 97, 99, 116, 105, 118, 97, 116, 101>>
        l1 == << <<35, 33, 47, 98, 105, 110, 47, 98, 97, 115, 104>>,
                 <<35, 32, 115, 99, 114, 105, 112, 116, 95, 118, 101, 114, 115, 105, 111, 110, 32, 61, 32>> \o ScriptVersionText,
                 << >> >>
        l2 == IF os = "darwin"
              THEN << <<101, 120, 112, 111, 114, 116, 32, 83, 72, 69, 76, 76, 95, 83, 69, 83, 83, 73, 79, 78, 95, 72, 73, 83, 84, 79, 82, 89, 61, 48>>,
                      <<101, 120, 112, 111, 114, 116, 32, 72, 73, 83, 84, 70, 73, 76, 69, 61>> \o HistoryPath(name),
                      <<115, 111, 117, 114, 99, 101, 32>> \o etc_profile,
                      << >> >>
              ELSE << >>
        l3 == << <<91, 32, 45, 114, 32>> \o home_rc \o <<32, 93, 32, 38, 38, 32, 115, 111, 117, 114, 99, 101, 32>> \o home_rc,
                 <<115, 111, 117, 114, 99, 101, 32>> \o venv_activate,
                 <<97, 108, 105, 97, 115, 32, 100, 101, 97, 99, 116, 105, 118, 97, 116, 101, 61, 34, 100, 101, 97, 99, 116, 105, 118, 97, 116, 101, 32, 38, 38, 32, 101, 120, 105, 116, 34>>,
                 << >> >>
        l4 == IF TRUE
              THEN << <<101, 120, 112, 111, 114, 116, 32, 72, 73, 83, 84, 70, 73, 76, 69, 61>> \o HistoryPath(name), << >> >>
              ELSE << >>
    IN  l1 \o l2 \o l3 \o l4

\* the lines, in the order of the code:
\*   '#!/bin/bash', '# script_version = 0.2', ''
\*   darwin: 'export SHELL_SESSION_HISTORY=0', 'export HISTFILE=<history>',
\*           'source /etc/profile', ''
\*   '[ -r <home_rc> ] && source <home_rc>', 'source <venv_activate>',
\*   'alias deactivate="deactivate && exit"', ''
\*   linux, freebsd*: 'export HISTFILE=<history>', ''
generate_veman_activate_script(name, os) ==
    LET etc_profile == <<47, 101, 116, 99, 47, 112, 114, 111, 102, 105, 108, 101>>
        home_rc == IF os = "darwin" THEN HomeDir \o <<47, 46, 98, 97, 115, 104, 95, 112, 114, 111, 102, 105, 108, 101>>
                   ELSE HomeDir \o <<47, 46, 98, 97, 115, 104, 114, 99>>
        venv_activate == EnvDir \o name \o <<47, 98, 105, 110, 47, 97, 99, 116, 105, 118, 97, 116, 101>>
        l1 == << <<35, 33, 47, 98, 105, 110, 47, 98, 97, 115, 104>>,
                 <<35, 32, 115, 99, 114, 105, 112, 116, 95, 118, 101, 114, 115, 105, 111, 110, 32, 61, 32>> \o ScriptVersionText,
                 << >> >>
        l2 == IF os = "darwin"
              THEN << <<101, 120, 112, 111, 114, 116, 32, 83, 72, 69, 76, 76, 95, 83, 69, 83, 83, 73, 79, 78, 95, 72, 73, 83, 84, 79, 82, 89, 61, 48>>,
                      <<101, 120, 112, 111, 114, 116, 32, 72, 73, 83, 84, 70, 73, 76, 69, 61>> \o HistoryPath(name),
                      <<115, 111, 117, 114, 99, 101, 32>> \o etc_profile,
                      << >> >>
              ELSE << >>
        l3 == << <<91, 32, 45, 114, 32>> \o home_rc \o <<32, 93, 32, 38, 38, 32, 115, 111, 117, 114, 99, 101, 32>> \o home_rc,
                 <<115, 111, 117, 114, 99, 101, 32>> \o venv_activate,
                 <<97, 108, 105, 97, 115, 32, 100, 101, 97, 99, 116, 105, 118, 97, 116, 101, 61, 34, 100, 101, 97, 99, 116, 105, 118, 97, 116, 101, 32, 38, 38, 32, 101, 120, 105, 116, 34>>,
                 << >> >>
        l4 == IF os = "linux" \/ StartsWithFreebsd(os)
              THEN << <<101, 120, 112, 111, 114, 116, 32, 72, 73, 83, 84, 70, 73, 76, 69, 61>> \o HistoryPath(name), << >> >>
              ELSE << >>
    IN  l1 \o l2 \o l3 \o l4

\* "for line in script: file.write(f'{line}\n')": the text of the file
RECURSIVE FileWrite(_)
FileWrite(script) ==
    IF script = << >> THEN << >>
    ELSE Head(script) \o <<10>> \o FileWrite(Tail(script))

\* the position of the first c in s, 0 when there is none
RECURSIVE Find(_, _, _)
Find(s, c, i) ==
    IF i > Len(s) THEN 0
    ELSE IF s[i] = c THEN i
    ELSE Find(s, c, i + 1)

\* file.readlines() on a text: the lines, each with its '\n', and a last
\* line without one when the text does not end in '\n'
RECURSIVE ReadLines(_)
ReadLines(text) ==
    IF text = << >> THEN << >>
    ELSE LET n == Find(text, 10, 1)
         IN  IF n = 0 THEN << text >>
             ELSE << SubSeq(text, 1, n) >> \o ReadLines(SubSeq(text, n + 1, Len(text)))

\* s.split(sep) for a one-character sep
RECURSIVE Split(_, _)
Split(s, sep) ==
    LET n == Find(s, sep, 1)
    IN  IF n = 0 THEN << s >>
        ELSE << SubSeq(s, 1, n - 1) >> \o Split(SubSeq(s, n + 1, Len(s)), sep)

\* the characters str.strip() removes: tab, LF, VT, FF, CR, space
Whitespace == {9, 10, 11, 12, 13, 32}

RECURSIVE LStrip(_)
LStrip(s) ==
    IF s # << >> /\ Head(s) \in Whitespace THEN LStrip(Tail(s)) ELSE s

RECURSIVE RStrip(_)
RStrip(s) ==
    IF s # << >> /\ s[Len(s)] \in Whitespace THEN RStrip(SubSeq(s, 1, Len(s) - 1)) ELSE s

\* s.strip()
Strip(s) == RStrip(LStrip(s))

\* the None of "return version or None", which the empty string gives too
NoVersion == << >>

\* bin/veman_activate as open() finds it
NoFile == [there |-> FALSE, text |-> << >>]

\* the reader returning lines[1].split('=')[1] as it is
read_version_unstripped(ps, name, file) ==
    IF ~file.there
    THEN Return(Event(ps, "Could not find file", name), NoVersion)
    ELSE LET lines == ReadLines(file.text)
         IN  IF Len(lines) < 2 THEN Raise([ps EXCEPT !.ret = NoVersion], "IndexError")
             ELSE IF lines[2] = <<10>> THEN Return(ps, <<48, 46, 49>>)
             ELSE IF Len(Split(lines[2], 61)) < 2
             THEN Return(Event(ps, "Could not determine version", name), NoVersion)
             ELSE Return(ps, Split(lines[2], 61)[2])

\* read_veman_activate_script_version(self.veman_activate); lines[1] of the
\* code is lines[2] here, and a file of fewer than two lines is an
\* IndexError that nothing catches
read_veman_activate_script_version(ps, name, file) ==
    IF ~file.there
    THEN Return(Event(ps, "Could not find file", name), NoVersion)
    ELSE LET lines == ReadLines(file.text)
         IN  IF Len(lines) < 2 THEN Raise([ps EXCEPT !.ret = NoVersion], "IndexError")
             ELSE IF lines[2] = <<10>> THEN Return(ps, <<48, 46, 49>>)
             ELSE IF Len(Split(lines[2], 61)) < 2
             THEN Return(Event(ps, "Could not determine version", name), NoVersion)
             ELSE Return(ps, Strip(Split(lines[2], 61)[2]))

\* the text of bin/veman_activate, of which the tree keeps the version: the
\* one install_scripts wrote
ScriptFile(tree, name, os) ==
    IF tree[name].script = "none" THEN NoFile
    ELSE [there |-> TRUE, text |-> FileWrite(generate_veman_activate_script(name, os))]

\* a script of the first releases of veman: no script_version line, the
\* second line is blank
OldScriptFile(name, os) ==
    LET script == generate_veman_activate_script(name, os)
    IN  [there |-> TRUE, text |-> FileWrite(<< script[1] >> \o SubSeq(script, 3, Len(script)))]

\* install_scripts with every line it writes, then the version read back
install_and_read(ps, name, os, ioFault) ==
    LET script == generate_veman_activate_script(name, os)
        p1 == install_scripts(ps, name, ioFault)
        p2 == IF OpenFails(ps.fs[name], ioFault) THEN p1
              ELSE [p1 EXCEPT !.ev = @ \o [i \in DOMAIN script |-> <<"write", script[i]>>]]
    IN  read_veman_activate_script_version(p2, name, ScriptFile(p2.fs, name, os))

InstallThenRead ==
    /\ pc = "ready"
    /\ \E name \in Names, os \in Platforms, ioFault \in BOOLEAN :
           Finish("install_scripts", name, [os |-> os],
                  install_and_read(Start(fs), name, os, ioFault))

ReadOldScript ==
    /\ pc = "ready"
    /\ \E name \in Names, os \in Platforms :
           Finish("read_old_script", name, [os |-> os],
                  read_veman_activate_script_version(Start(fs), name, OldScriptFile(name, os)))

NextScript ==
    \/ Invoke
    \/ InstallThenRead
    \/ ReadOldScript

SpecScript == Init /\ [][NextScript]_vars

(***************************************************************************)
(* Properties                                                              *)
(***************************************************************************)

\* the operation op has just run to its end
Ran(op) == pc = "done" /\ last.op = op

\* the run printed or called tag
HasEvent(tag) == \E i \in DOMAIN last.ev : last.ev[i][1] = tag

Managed(name) == is_managed_venv(fs, PathOf(name, FALSE))

\* the names the run announced with "Upgrading <name>", in order
RECURSIVE UpgradingNames(_)
UpgradingNames(ev) ==
    IF ev = << >> THEN << >>
    ELSE IF Head(ev)[1] = "Upgrading" THEN << Head(ev)[2] >> \o UpgradingNames(Tail(ev))
    ELSE UpgradingNames(Tail(ev))

\* C1: after create returned True the environment is managed, and the
\* activation chained to it spawns the shell without an ownership error
C1_CreatedIsManaged ==
    (Ran("create") /\ last.ret = "True") =>
        /\ Managed(last.name)
        /\ last.in.activate => (HasEvent("spawn") /\ ~HasEvent("is not a managed venv"))

\* C2: delete, activate and upgrade (any flags) leave an absent or foreign
\* directory as it was
C2_UnmanagedUntouched ==
    (pc = "done" /\ last.op \in {"delete", "activate", "upgrade"}
                 /\ last.was \in {"Absent", "Foreign"}) =>
        /\ ~last.changed
        /\ ~HasEvent("install_scripts")

\* C3: create and temp on a name whose directory is foreign do not run the
\* builder on it, do not install the script into it and do not delete it
C3_ForeignNeverMutated ==
    (pc = "done" /\ last.op \in {"create", "temp"} /\ last.was = "Foreign") =>
        /\ ~last.changed
        /\ ~HasEvent("builder")
        /\ ~HasEvent("install_scripts")
        /\ ~HasEvent("rmtree")

\* C4: after delete on a managed environment the environment is not managed
\* and its directory, with everything in it, is gone
C4_DeleteRemovesManaged ==
    (Ran("delete") /\ last.was = "Managed") =>
        /\ last.status = "ok"
        /\ ~Managed(last.name)
        /\ ~fs[last.name].dir
        /\ fs[last.name] = AbsentDir

C4_Witness ==
    Ran("delete") /\ last.was = "Managed" /\ HasEvent("rmtree")

\* C5: upgrade with deps, python and scripts all false is a reported failure
\* with non-zero exit status and no change under the root
C5_UpgradeNothingIsRefused ==
    (Ran("upgrade") /\ ~last.in.deps /\ ~last.in.python /\ ~last.in.scripts) =>
        /\ last.status # "ok"
        /\ ~last.changed

\* C6: upgrade with at least one flag set, on an environment that is not
\* managed, is reported and ends the process with non-zero exit status
C6_UpgradeUnmanagedExits ==
    (Ran("upgrade") /\ last.was # "Managed"
                    /\ (last.in.deps \/ last.in.python \/ last.in.scripts)) =>
        /\ last.status = "exit1"
        /\ HasEvent("Environment not found")

\* C7: a bulk upgrade attempts every listed environment, in the order of the
\* list, whatever happens to the ones before
C7_BulkAttemptsAll ==
    Ran("upgrade_all") => UpgradingNames(last.ev) = last.listed

\* C8: delete on a name that is not managed is reported, ends the process
\* with exit status 1, creates no directory and removes nothing
C8_DeleteUnmanagedRefused ==
    (Ran("delete") /\ last.name \in Names /\ last.was # "Managed") =>
        /\ last.status = "exit1"
        /\ last.ev = << <<"Environment not found", last.name>> >>
        /\ ~last.changed
        /\ last.was = "Absent" => ~fs[last.name].dir
        /\ StateOf(fs, last.name) = last.was

C8_Witness ==
    Ran("delete") /\ last.was = "Absent" /\ last.status = "exit1" /\ ~fs[last.name].dir

\* C9: once the temp command has spawned the shell and finished, however the
\* shell ended, the temporary environment's directory no longer exists
C9_TempIsDeleted ==
    (Ran("temp") /\ HasEvent("spawn")) => ~fs[last.name].dir

\* C10: with an environment active, activate, create and temp print the
\* report and exit with status 1 before anything else is called, and the
\* tree under the root is unchanged
C10_ActiveEnvironmentBlocks ==
    (pc = "done" /\ last.op \in {"activate", "create", "temp"}
                 /\ Truthy(last.in.virtual_env)) =>
        /\ last.status = "exit1"
        /\ Len(last.ev) = 1
        /\ last.ev[1][1] \in {"Deactivate before activating another environment",
                              "Deactivate before creating a new environment"}
        /\ ~last.changed

C10_Witness ==
    /\ Ran("temp")
    /\ Truthy(last.in.virtual_env)
    /\ last.status = "exit1"
    /\ last.was = "Managed"

\* C11: a directory is managed exactly when pyvenv.cfg, bin/python,
\* bin/activate and bin/veman_activate are all there, with or without the
\* trailing separator; so a partial match is not managed, and a managed
\* directory is an environment
C11_ManagedIsFourConditions ==
    Ran("probe") =>
        LET d == fs[last.name]
        IN  /\ last.ret.managed = (/\ d.cfg
                                   /\ d.python # "none"
                                   /\ d.activate
                                   /\ d.script # "none")
            /\ last.ret.managed => last.ret.venv

\* three of the four, probed with the trailing separator
C11_Witness ==
    /\ Ran("probe")
    /\ last.in.slash
    /\ ~fs[last.name].cfg
    /\ fs[last.name].python = "file"
    /\ fs[last.name].activate
    /\ fs[last.name].script # "none"
    /\ ~last.ret.managed

\* C12: create on a managed environment, without overwrite and with the
\* prompt declined, returns False and changes nothing under the root; the
\* builder and install_scripts are not called and no activation is chained,
\* requested or not
C12_DeclinedCreateIsNoOp ==
    (Ran("create") /\ last.was = "Managed" /\ ~Truthy(last.in.virtual_env)
                   /\ ~last.in.overwrite /\ last.in.answer = "N") =>
        /\ last.status = "ok"
        /\ last.ret = "False"
        /\ ~last.changed
        /\ Managed(last.name)
        /\ last.ev = << <<"already exists", last.name>>, <<"prompt", last.name>> >>

C12_Witness ==
    /\ Ran("create")
    /\ last.was = "Managed"
    /\ ~last.in.overwrite
    /\ last.in.answer = "N"
    /\ last.in.activate
    /\ last.ret = "False"
    /\ ~HasEvent("spawn")

\* the position of the first event tag in the run, 0 when there is none
FirstEvent(tag) ==
    IF HasEvent(tag)
    THEN CHOOSE i \in DOMAIN last.ev :
             /\ last.ev[i][1] = tag
             /\ \A j \in 1 .. (i - 1) : last.ev[j][1] # tag
    ELSE 0

\* C13: create with overwrite on an environment an earlier create made, once
\* it has returned True: no prompt, the old directory is removed before
\* the builder runs, and the one directory of that name is a rebuilt managed
\* environment without the history file of the first
C13_OverwriteRebuilds ==
    (Ran("create") /\ last.was = "Managed" /\ ~Truthy(last.in.virtual_env)
                   /\ last.in.overwrite /\ last.ret = "True") =>
        /\ ~HasEvent("prompt")
        /\ 0 < FirstEvent("rmtree")
        /\ FirstEvent("rmtree") < FirstEvent("builder")
        /\ fs[last.name].dir
        /\ Managed(last.name)
        /\ ~HasEvent("spawn") => ~fs[last.name].hist

\* C14: activate on a name that is not managed spawns no shell: the
\* ValueError is caught and reported and the process goes on to a normal
\* end; activate on a managed environment spawns the shell on that
\* environment's veman_activate, and on_deactivate runs only after the
\* shell has exited
C14_ActivateOwnership ==
    (Ran("activate") /\ ~Truthy(last.in.virtual_env)) =>
        /\ last.was # "Managed" =>
               /\ last.status = "ok"
               /\ last.ev = << <<"is not a managed venv", last.name>> >>
               /\ ~last.changed
        /\ last.was = "Managed" =>
               /\ last.ev[1] = <<"spawn", last.name>>
               /\ last.status = "ok" => last.ev = << <<"spawn", last.name>>,
                                                      <<"on_deactivate", last.name>> >>
               /\ last.status # "ok" => ~HasEvent("on_deactivate")

C14_Witness ==
    /\ Ran("activate")
    /\ last.was = "Foreign"
    /\ last.status = "ok"
    /\ HasEvent("is not a managed venv")

\* the names the list command printed, in order
Printed == [i \in DOMAIN last.ev |-> last.ev[i][2]]

\* C15: list prints exactly the names of the entries of the root that are
\* managed, each once, in ascending case-sensitive order; nothing foreign
\* or absent is printed, nothing is printed for a root without managed
\* entries, and the list read again on the unchanged tree is the same
C15_ListIsSortedManaged ==
    Ran("list") =>
        /\ \A i \in DOMAIN last.ev : last.ev[i][1] = "print"
        /\ { Printed[i] : i \in DOMAIN Printed } = { n \in Names : Managed(n) }
        /\ \A i, j \in DOMAIN Printed : i < j => StrLess(Printed[i], Printed[j])
        /\ \A i \in DOMAIN Printed : StateOf(fs, Printed[i]) \notin {"Foreign", "Absent", "Other"}
        /\ (\A n \in Names : ~Managed(n)) => Printed = << >>
        /\ Printed = get_environments(fs)
        /\ ~last.changed

\* "W" before veman-temp0, with a foreign directory left out
C15_Witness ==
    /\ Ran("list")
    /\ Printed = << <<87>>, TempName(0) >>
    /\ StateOf(fs, TempName(1)) = "Foreign"

\* C16: the history read of one environment gives the empty sequence
\* (nothing is printed) and ends normally both when .veman_history is missing and when it is there
\* but cannot be read, the second with a report
C16_HistoryReadNeverRaises ==
    (Ran("history") /\ last.name # NoName
                    /\ (~fs[last.name].hist \/ last.in.files[last.name].err)) =>
        /\ last.status = "ok"
        /\ ~HasEvent("print")
        /\ fs[last.name].hist => HasEvent("Error reading")

\* C17: the prompt goes on until the input is an index of the menu or 'q':
\* an index k gives the k-th name of the menu, 'q' ends the process with
\* status 0, and every other input, a number out of range or not a number
\* at all, is followed by the next prompt and never by an error
C17_PromptNeverFails ==
    (last.op = "resolve" /\ Prompts # << >>) =>
        LET choice == last.in.choice
            isIndex == \E k \in 1 .. Len(last.listed) : choice = Str(k)
        IN  /\ choice = <<113>> => (pc = "done" /\ last.status = "exit0")
            /\ isIndex => /\ pc = "done"
                          /\ last.status = "ok"
                          /\ \E k \in 1 .. Len(last.listed) :
                                 choice = Str(k) /\ last.ret = last.listed[k]
            /\ (choice # <<113>> /\ ~isIndex) => (pc = "prompt" /\ last.status = "ok")

\* C18: when every name veman-temp<K> of the range is listed, the temp
\* command is a reported failure with exit status 1: no name that is in use
\* is handed on, and no existing environment is overwritten or deleted
C18_ExhaustedTempNamesAreFatal ==
    (Ran("temp") /\ ~Truthy(last.in.virtual_env)
                 /\ \E k \in 0 .. (TempRange - 1) :
                        last.name = TempName(k) /\ last.was = "Managed") =>
        /\ last.status = "exit1"
        /\ ~HasEvent("rmtree")
        /\ ~HasEvent("builder")
        /\ ~last.changed

\* C19: the temp command works on veman-temp<K> where every veman-temp<K'>
\* with K' < K is listed and, when any name of the range is free,
\* veman-temp<K> itself is not listed: K is the smallest free number
C19_TempNameIsFirstFree ==
    Ran("temp") =>
        \E k \in 0 .. (TempRange - 1) :
            /\ last.name = TempName(k)
            /\ \A j \in 0 .. (k - 1) : Managed(TempName(j))
            /\ (\E j \in 0 .. (TempRange - 1) : j # k /\ ~Managed(TempName(j))) =>
                   last.was # "Managed"

\* veman-temp0 is in use and veman-temp1 is handed out
C19_Witness ==
    /\ Ran("temp")
    /\ last.name = TempName(1)
    /\ last.was = "Absent"
    /\ Managed(TempName(0))
    /\ HasEvent("builder")

\* the i-th line of the history of name as --verbose prints it
Numbered(name, i, line) == <<91>> \o name \o <<58>> \o Str(i) \o <<93, 32>> \o line

\* what the history of one environment is to be: nothing without the file,
\* else the lines of the file in order, numbered from 1 when verbose
ExpectedHistory(name) ==
    LET text == last.in.files[name].text
    IN  IF ~fs[name].hist THEN << >>
        ELSE [i \in DOMAIN text |->
                 IF last.in.verbose THEN Numbered(name, i, text[i]) ELSE text[i]]

RECURSIVE ExpectedAggregate(_)
ExpectedAggregate(names) ==
    IF names = << >> THEN << >>
    ELSE ExpectedHistory(Head(names)) \o ExpectedAggregate(Tail(names))

\* C20: when every file can be read, the history of one environment is the
\* lines of its file in file order, the i-th prefixed with '[name:i] ' when
\* verbose; the history of all is the concatenation of the histories of the
\* managed environments in the order of the list, each numbered from 1
C20_HistoryInOrder ==
    (Ran("history") /\ \A n \in Names : ~last.in.files[n].err) =>
        /\ last.status = "ok"
        /\ \A i \in DOMAIN last.ev : last.ev[i][1] = "print"
        /\ last.name # NoName => Printed = ExpectedHistory(last.name)
        /\ last.name = NoName => Printed = ExpectedAggregate(last.listed)

\* '[W:1] ls', '[W:2] cd /tmp', '[veman-temp0:1] ls'
C20_Witness ==
    /\ Ran("history")
    /\ last.name = NoName
    /\ last.in.verbose
    /\ Printed = << <<91, 87, 58, 49, 93, 32, 108, 115>>,
                    <<91, 87, 58, 50, 93, 32, 99, 100, 32, 47, 116, 109, 112>>,
                    <<91>> \o TempName(0) \o <<58, 49, 93, 32, 108, 115>> >>

\* C21: on every platform the script install_scripts has written reads back
\* as the version it was written with, '0.2'; a script whose second line is
\* blank reads back as '0.1'
C21_VersionRoundTrip ==
    /\ (Ran("install_scripts") /\ HasEvent("install_scripts")) =>
           /\ last.status = "ok"
           /\ last.ret = <<48, 46, 50>>
           /\ fs[last.name].script = ScriptVersion
    /\ Ran("read_old_script") =>
           /\ last.status = "ok"
           /\ last.ret = <<48, 46, 49>>

C21_Witness ==
    /\ Ran("install_scripts")
    /\ last.in.os = "darwin"
    /\ last.was = "Foreign"
    /\ HasEvent("write")
    /\ last.ret = <<48, 46, 50>>

\* the lines install_scripts wrote, in order
Written ==
    LET w == SelectSeq(last.ev, LAMBDA e : e[1] = "write")
    IN  [i \in DOMAIN w |-> w[i][2]]

\* the positions of line among the written lines
Where(line) == { i \in DOMAIN Written : Written[i] = line }

StartsWith(s, prefix) == Len(s) >= Len(prefix) /\ SubSeq(s, 1, Len(prefix)) = prefix

\* C22: on every platform the written script begins with '#!/bin/bash' and
\* the script_version comment, sources the user's profile behind a
\* readability test and after it the environment's bin/activate, defines
\* the deactivate alias, and has exactly one 'export HISTFILE=' line, for
\* the environment's history file: before the user's profile on darwin,
\* after bin/activate on linux and freebsd
C22_ScriptLineOrder ==
    (Ran("install_scripts") /\ HasEvent("write")) =>
        LET name == last.name
            home_rc == IF last.in.os = "darwin" THEN <<47, 104, 47, 46, 98, 97, 115, 104, 95, 112, 114, 111, 102, 105, 108, 101>>
                       ELSE <<47, 104, 47, 46, 98, 97, 115, 104, 114, 99>>
            profile == Where(<<91, 32, 45, 114, 32>> \o home_rc \o <<32, 93, 32, 38, 38, 32, 115, 111, 117, 114, 99, 101, 32>> \o home_rc)
            shim == Where(<<115, 111, 117, 114, 99, 101, 32>> \o <<47, 104, 47, 46, 118, 101, 109, 97, 110, 47, 101, 110, 118, 47>> \o name \o <<47, 98, 105, 110, 47, 97, 99, 116, 105, 118, 97, 116, 101>>)
            alias == Where(<<97, 108, 105, 97, 115, 32, 100, 101, 97, 99, 116, 105, 118, 97, 116, 101, 61, 34, 100, 101, 97, 99, 116, 105, 118, 97, 116, 101, 32, 38, 38, 32, 101, 120, 105, 116, 34>>)
            exports == { i \in DOMAIN Written : StartsWith(Written[i], <<101, 120, 112, 111, 114, 116, 32, 72, 73, 83, 84, 70, 73, 76, 69, 61>>) }
        IN  /\ Written[1] = <<35, 33, 47, 98, 105, 110, 47, 98, 97, 115, 104>>
            /\ Written[2] = <<35, 32, 115, 99, 114, 105, 112, 116, 95, 118, 101, 114, 115, 105, 111, 110, 32, 61, 32, 48, 46, 50>>
            /\ Cardinality(profile) = 1
            /\ Cardinality(shim) = 1
            /\ Cardinality(alias) = 1
            /\ Cardinality(exports) = 1
            /\ \A p \in profile, a \in shim, d \in alias, e \in exports :
                   /\ 2 < p
                   /\ p < a
                   /\ a < d
                   /\ Written[e] = <<101, 120, 112, 111, 114, 116, 32, 72, 73, 83, 84, 70, 73, 76, 69, 61>> \o <<47, 104, 47, 46, 118, 101, 109, 97, 110, 47, 101, 110, 118, 47>> \o name \o <<47, 46, 118, 101, 109, 97, 110, 95, 104, 105, 115, 116, 111, 114, 121>>
                   /\ last.in.os = "darwin" => e < p
                   /\ last.in.os # "darwin" => a < e

\* on freebsd the export is the line after the alias and the blank line
C22_Witness ==
    /\ Ran("install_scripts")
    /\ last.in.os = "freebsd14"
    /\ Len(Written) = 9
    /\ StartsWith(Written[8], <<101, 120, 112, 111, 114, 116, 32, 72, 73, 83, 84, 70, 73, 76, 69, 61>>)

\* C23: upgrade on a managed environment, whatever the flags and whatever
\* the builder does, ends with the environment still managed
C23_UpgradeKeepsManaged ==
    (Ran("upgrade") /\ last.was = "Managed") => Managed(last.name)

====
